---- MODULE Spec2Model ----
(***************************************************************************)
(* A model of the servo_42d_modbus driver: the Modbus RTU primitives of    *)
(* wf_modbus.py (frame building, CRC-16, one write and one read on the     *)
(* serial connection), the type checks and parsers of wf_types.py and the  *)
(* semantic operations of wf_servo.py (class Servo42dModbus).              *)
(*                                                                         *)
(* Python values are records: t is the Python type of the value and v its  *)
(* integer content.  A byte string is a sequence of integers.  Every call  *)
(* is one atomic step; what the call did (exception, return value, frames  *)
(* written, reads made) is recorded in `call`.                             *)
(***************************************************************************)
EXTENDS Integers, Sequences, FiniteSets, TLC

VARIABLES
    pc,              \* "idle": the caller is about to call; "returned": a call has ended
    slave_address,   \* Servo42dModbus.slave_address of the driver instance
    configuration,   \* Servo42dModbus.configuration: the cache, key -> value
    call,            \* the latest call: what was called, with what, and how it ended
                     \* (before: the serial connection as the call found it)
    serial_connection  \* Modbus.serial_connection: the last call made on it

vars == <<pc, slave_address, configuration, call, serial_connection>>

---------------------------------------------------------------------------
(* Bounds of the model.                                                    *)

\* longest byte sequence handed to the CRC routine on its own
MaxLen == 3

---------------------------------------------------------------------------
(* Python values.                                                          *)

\* a value is [t, v, d, s]: its type, its integer content (a float is the
\* fraction v/d), and its text when it is a string
PyInt(n) == [t |-> "int", v |-> n, d |-> 1, s |-> ""]
PyBool(b) == [t |-> "bool", v |-> IF b THEN 1 ELSE 0, d |-> 1, s |-> ""]
PyStr(text) == [t |-> "str", v |-> 0, d |-> 1, s |-> text]
PyFloat(n, m) == [t |-> "float", v |-> n, d |-> m, s |-> ""]
PyEnum(enum_type, n) == [t |-> enum_type, v |-> n, d |-> 1, s |-> ""]
PyList(items) == [t |-> "list", items |-> items]
PyTuple(items) == [t |-> "tuple", items |-> items]

\* isinstance(value, int): bool is a subclass of int
IsInstanceInt(value) == value.t \in {"int", "bool"}

---------------------------------------------------------------------------
(* Bit operations on Python's unbounded non-negative integers.             *)

RECURSIVE BitXor(_, _)
BitXor(a, b) ==
    IF a = 0 THEN b
    ELSE IF b = 0 THEN a
    ELSE (((a % 2) + (b % 2)) % 2) + (2 * BitXor(a \div 2, b \div 2))

RECURSIVE Pow2(_)
Pow2(n) == IF n = 0 THEN 1 ELSE 2 * Pow2(n - 1)

\* s[:n]
Slice(s, n) == SubSeq(s, 1, IF Len(s) < n THEN Len(s) ELSE n)

\* (x >> n) & 0xFF
ShiftAndMask(x, n) == (x \div Pow2(n)) % 256

---------------------------------------------------------------------------
(* wf_types.TypeCheck                                                      *)

is_enum(value, enum_type) == value.t = enum_type
is_str(value) == value.t = "str"
is_bool(value) == value.t = "bool"
is_float(value) == value.t = "float"
is_uint8(value) == IsInstanceInt(value) /\ 0 <= value.v /\ value.v <= 255
\* is_uint16 with its upper limit off by one
is_uint16_off_by_one(value) == IsInstanceInt(value) /\ 0 <= value.v /\ value.v <= 65536
is_uint16(value) == IsInstanceInt(value) /\ 0 <= value.v /\ value.v <= 65535
\* 0 <= value <= 4294967295, that is: value // 65536 <= 65535
is_uint32(value) == IsInstanceInt(value) /\ 0 <= value.v /\ value.v \div 65536 <= 65535
\* a payload is [t, items]: the container's type and its elements
is_int_list(value) ==
    value.t = "list" /\ \A i \in 1..Len(value.items) : IsInstanceInt(value.items[i])

---------------------------------------------------------------------------
(* wf_types.Parse.  Python integers are unbounded; a 48-bit value is kept   *)
(* as [hi, lo], standing for hi * 2^24 + lo with lo in 0 .. 2^24 - 1.       *)

Wide(hi, lo) == [hi |-> hi, lo |-> lo]

\* Parse.parse_int48 with the sign bit taken from bit 46
parse_int48_bit_46(b1, b2, b3, b4, b5, b6) ==
    LET hi == (b1 * 65536) + (b2 * 256) + b3
        lo == (b4 * 65536) + (b5 * 256) + b6
    IN IF (hi \div Pow2(22)) % 2 = 1 THEN Wide(hi - Pow2(24), lo) ELSE Wide(hi, lo)

\* Parse.parse_int48 for six bytes: val = b1 << 40 | ... | b6 (the shifted bytes do
\* not overlap, so | adds), then val - (1 << 48) if val & (1 << 47) else val
parse_int48(b1, b2, b3, b4, b5, b6) ==
    LET hi == (b1 * 65536) + (b2 * 256) + b3
        lo == (b4 * 65536) + (b5 * 256) + b6
    IN IF (hi \div Pow2(23)) % 2 = 1 THEN Wide(hi - Pow2(24), lo) ELSE Wide(hi, lo)

---------------------------------------------------------------------------
(* Modbus._calculate_modbus_crc                                            *)

\* the inner loop's pass with the low bit tested after the shift, not before
CrcShift_test_after_shift(crc) ==
    IF (crc \div 2) % 2 = 1 THEN BitXor(crc \div 2, 40961) ELSE crc \div 2
\* the inner loop's pass without the XOR of the polynomial
CrcShift_no_xor(crc) == crc \div 2
\* one pass of the inner loop: test the low bit, shift right, XOR 0xA001
CrcShift(crc) ==
    IF crc % 2 = 1 THEN BitXor(crc \div 2, 40961) ELSE crc \div 2

RECURSIVE CrcShifts(_, _)
CrcShifts(crc, n) == IF n = 0 THEN crc ELSE CrcShifts(CrcShift(crc), n - 1)

\* the body of "for byte in data": crc ^= byte, then range(8) shifts
CrcByte(crc, byte) == CrcShifts(BitXor(crc, byte), 8)

\* the register after the bytes data[i..] have been processed (the test of
\* `next` makes TLC evaluate the register byte by byte; it never succeeds)
RECURSIVE CrcRegister(_, _, _)
CrcRegister(crc, data, i) ==
    IF i > Len(data) THEN crc
    ELSE LET next == CrcByte(crc, data[i])
         IN IF next < 0 THEN next ELSE CrcRegister(next, data, i + 1)

\* the running register is seeded with 0xFFFF
CrcValue(data) == CrcRegister(65535, data, 1)

\* bytes([crc & 0xFF, (crc >> 8) & 0xFF])
\* the routine returning the high byte first
_calculate_modbus_crc_high_byte_first(data) ==
    LET crc == CrcValue(data) IN <<(crc \div 256) % 256, crc % 256>>
_calculate_modbus_crc(data) ==
    LET crc == CrcValue(data) IN <<crc % 256, (crc \div 256) % 256>>

---------------------------------------------------------------------------
(* The serial connection (pyserial), the external transport.               *)
(* A transport mode says what the device and the line do with one request: *)
(* what readline() returns for the command written, or which call raises.  *)

TransportModes ==
    {"echo", "zeros", "ones", "ff", "empty", "corrupt", "truncated", "write_error",
     "read_error"}

\* the sequence s with its last byte changed
CorruptLast(s) ==
    IF s = <<>> THEN <<0>>
    ELSE [i \in 1..Len(s) |-> IF i = Len(s) THEN (s[i] + 1) % 256 ELSE s[i]]

\* what a device that follows the Modbus protocol answers to a command, every
\* register it reports holding the bytes high, low: the data of a read (an
\* exception frame when more than 125 registers are asked for), the echo of a
\* single write, the 6-byte header of a multiple write, each with its CRC
Answer(command, high, low) ==
    LET quantity == (command[5] * 256) + command[6]
        body == CASE command[2] \in {3, 4} /\ quantity <= 125 ->
                       <<command[1], command[2], 2 * quantity>>
                       \o [i \in 1..(2 * quantity) |-> IF i % 2 = 1 THEN high ELSE low]
                  [] command[2] \in {3, 4} -> <<command[1], command[2] + 128, 3>>
                  [] command[2] = 16 -> SubSeq(command, 1, 6)
                  [] OTHER -> SubSeq(command, 1, Len(command) - 2)
    IN body \o _calculate_modbus_crc(body)

\* serial_connection.readline() after serial_connection.write(command)
Respond(mode, command) ==
    CASE mode = "echo" -> command
      [] mode = "zeros" -> Answer(command, 0, 0)
      [] mode = "ones" -> Answer(command, 0, 1)
      [] mode = "ff" -> Answer(command, 255, 255)
      [] mode = "empty" -> <<>>
      [] mode = "corrupt" -> CorruptLast(command)
      [] mode = "truncated" -> SubSeq(command, 1, 3)
      [] OTHER -> <<>>

---------------------------------------------------------------------------
(* wf_modbus.Modbus: the four primitives.                                  *)
(* A primitive's result is [exc, command, response, frames, nreads, wire]: *)
(* the exception it ended with ("none": it returned), the pair it returns, *)
(* the frames it handed to serial_connection.write, the number of          *)
(* serial_connection.readline calls it made, and the calls it made on the  *)
(* serial connection in their order ("write", "read"; "write_raised" and   *)
(* "read_raised" when the call raised).                                    *)

Raised(exc) ==
    [exc |-> exc, command |-> <<>>, response |-> <<>>, frames |-> <<>>, nreads |-> 0,
     wire |-> <<>>]

\* the keyword parameters each primitive's signature declares
ReadParams == {"slave_address", "starting_address", "register_quantity", "verbose"}
WriteSingleParams == {"slave_address", "register_address", "register_value", "verbose"}
WriteMultipleParams ==
    {"slave_address", "starting_address", "register_quantity", "byte_quantity",
     "payload", "verbose"}

\* _send_and_receive_packet returning after the write, the response left unread
_send_and_receive_packet_without_read(command_packet, mode) ==
    IF mode = "write_error"
    THEN [exc |-> "SerialException", command |-> command_packet, response |-> <<>>,
          frames |-> <<command_packet>>, nreads |-> 0, wire |-> <<"write_raised">>]
    ELSE [exc |-> "none", command |-> command_packet, response |-> <<>>,
          frames |-> <<command_packet>>, nreads |-> 0, wire |-> <<"write">>]

\* Modbus._send_and_receive_packet: one write, then one readline
_send_and_receive_packet(command_packet, mode) ==
    IF mode = "write_error"
    THEN [exc |-> "SerialException", command |-> command_packet, response |-> <<>>,
          frames |-> <<command_packet>>, nreads |-> 0, wire |-> <<"write_raised">>]
    ELSE IF mode = "read_error"
    THEN [exc |-> "SerialException", command |-> command_packet, response |-> <<>>,
          frames |-> <<command_packet>>, nreads |-> 1,
          wire |-> <<"write", "read_raised">>]
    ELSE [exc |-> "none", command |-> command_packet,
          response |-> Respond(mode, command_packet),
          frames |-> <<command_packet>>, nreads |-> 1, wire |-> <<"write", "read">>]

\* the packet with each 16-bit field's low byte ahead of its high byte
BuildPacket_low_byte_first(slave, function_code, first, second) ==
    LET packet == <<slave.v, function_code,
                    first.v % 256, ShiftAndMask(first.v, 8),
                    second.v % 256, ShiftAndMask(second.v, 8)>>
    IN packet \o _calculate_modbus_crc(packet)

\* the 6-byte packet [slave, function code, field hi, lo, field hi, lo] and its CRC
BuildPacket(slave, function_code, first, second) ==
    LET packet == <<slave.v, function_code,
                    ShiftAndMask(first.v, 8), first.v % 256,
                    ShiftAndMask(second.v, 8), second.v % 256>>
    IN packet \o _calculate_modbus_crc(packet)

\* Modbus.read_holding_registers (function code 0x03), called with keywords kw
read_holding_registers(kw, slave, starting_address, register_quantity, verbose, mode) ==
    IF ~(kw \subseteq ReadParams) THEN Raised("TypeError")
    ELSE IF ~is_uint8(slave) THEN Raised("TypeError")
    ELSE IF ~is_uint16(starting_address) THEN Raised("TypeError")
    ELSE IF ~is_uint16(register_quantity) THEN Raised("TypeError")
    ELSE IF ~is_bool(verbose) THEN Raised("TypeError")
    ELSE _send_and_receive_packet(
             BuildPacket(slave, 3, starting_address, register_quantity), mode)

\* Modbus.read_input_registers (function code 0x04)
read_input_registers(kw, slave, starting_address, register_quantity, verbose, mode) ==
    IF ~(kw \subseteq ReadParams) THEN Raised("TypeError")
    ELSE IF ~is_uint8(slave) THEN Raised("TypeError")
    ELSE IF ~is_uint16(starting_address) THEN Raised("TypeError")
    ELSE IF ~is_uint16(register_quantity) THEN Raised("TypeError")
    ELSE IF ~is_bool(verbose) THEN Raised("TypeError")
    ELSE _send_and_receive_packet(
             BuildPacket(slave, 4, starting_address, register_quantity), mode)

\* Modbus.write_single_register (function code 0x06)
write_single_register(kw, slave, register_address, register_value, verbose, mode) ==
    IF ~(kw \subseteq WriteSingleParams) THEN Raised("TypeError")
    ELSE IF ~is_uint8(slave) THEN Raised("TypeError")
    ELSE IF ~is_uint16(register_address) THEN Raised("TypeError")
    ELSE IF ~is_uint16(register_value) THEN Raised("TypeError")
    ELSE IF ~is_bool(verbose) THEN Raised("TypeError")
    ELSE _send_and_receive_packet(
             BuildPacket(slave, 6, register_address, register_value), mode)

\* bytearray.extend(payload) takes integers in range(0, 256) only
ExtendRaises(payload) ==
    \E i \in 1..Len(payload.items) : payload.items[i].v < 0 \/ payload.items[i].v > 255

\* write_multiple_registers refusing a byte quantity that is not the payload's length
write_multiple_registers_checks_length(kw, slave, starting_address, register_quantity, byte_quantity, payload, verbose, mode) ==
    IF ~(kw \subseteq WriteMultipleParams) THEN Raised("TypeError")
    ELSE IF ~is_uint8(slave) THEN Raised("TypeError")
    ELSE IF ~is_uint16(starting_address) THEN Raised("TypeError")
    ELSE IF ~is_uint16(register_quantity) THEN Raised("TypeError")
    ELSE IF ~is_uint8(byte_quantity) THEN Raised("TypeError")
    ELSE IF ~is_int_list(payload) THEN Raised("TypeError")
    ELSE IF ~is_bool(verbose) THEN Raised("TypeError")
    ELSE IF ExtendRaises(payload) THEN Raised("ValueError")
    ELSE IF byte_quantity.v # Len(payload.items) THEN Raised("ValueError")
    ELSE LET packet == <<slave.v, 16,
                         ShiftAndMask(starting_address.v, 8), starting_address.v % 256,
                         ShiftAndMask(register_quantity.v, 8), register_quantity.v % 256,
                         byte_quantity.v>>
                       \o [i \in 1..Len(payload.items) |-> payload.items[i].v]
         IN _send_and_receive_packet(packet \o _calculate_modbus_crc(packet), mode)

\* write_multiple_registers taking the CRC before the payload is appended
write_multiple_registers_crc_of_header(kw, slave, starting_address, register_quantity, byte_quantity, payload, verbose, mode) ==
    IF ~(kw \subseteq WriteMultipleParams) THEN Raised("TypeError")
    ELSE IF ~is_uint8(slave) THEN Raised("TypeError")
    ELSE IF ~is_uint16(starting_address) THEN Raised("TypeError")
    ELSE IF ~is_uint16(register_quantity) THEN Raised("TypeError")
    ELSE IF ~is_uint8(byte_quantity) THEN Raised("TypeError")
    ELSE IF ~is_int_list(payload) THEN Raised("TypeError")
    ELSE IF ~is_bool(verbose) THEN Raised("TypeError")
    ELSE IF ExtendRaises(payload) THEN Raised("ValueError")
    ELSE LET packet == <<slave.v, 16,
                         ShiftAndMask(starting_address.v, 8), starting_address.v % 256,
                         ShiftAndMask(register_quantity.v, 8), register_quantity.v % 256,
                         byte_quantity.v>>
             bytes == [i \in 1..Len(payload.items) |-> payload.items[i].v]
         IN _send_and_receive_packet(packet \o bytes \o _calculate_modbus_crc(packet), mode)

\* Modbus.write_multiple_registers (function code 0x10)
write_multiple_registers(kw, slave, starting_address, register_quantity, byte_quantity, payload, verbose, mode) ==
    IF ~(kw \subseteq WriteMultipleParams) THEN Raised("TypeError")
    ELSE IF ~is_uint8(slave) THEN Raised("TypeError")
    ELSE IF ~is_uint16(starting_address) THEN Raised("TypeError")
    ELSE IF ~is_uint16(register_quantity) THEN Raised("TypeError")
    ELSE IF ~is_uint8(byte_quantity) THEN Raised("TypeError")
    ELSE IF ~is_int_list(payload) THEN Raised("TypeError")
    ELSE IF ~is_bool(verbose) THEN Raised("TypeError")
    ELSE IF ExtendRaises(payload) THEN Raised("ValueError")
    ELSE LET packet == <<slave.v, 16,
                         ShiftAndMask(starting_address.v, 8), starting_address.v % 256,
                         ShiftAndMask(register_quantity.v, 8), register_quantity.v % 256,
                         byte_quantity.v>>
                       \o [i \in 1..Len(payload.items) |-> payload.items[i].v]
         IN _send_and_receive_packet(packet \o _calculate_modbus_crc(packet), mode)

---------------------------------------------------------------------------
(* wf_servo.Servo42dModbus: the semantic operations.                       *)
(* An operation's outcome is [exc, cause, ret, value, command, response,   *)
(* frames, nreads, wire, ncalls, config]: the exception it ended with      *)
(* ("none": it returned), the exception that one wraps, the value returned *)
(* ("True", "False", "tuple", "dict"; "None" when it raised), the numbers  *)
(* returned, the pair its primitive returned, the frames handed to the     *)
(* serial connection, the readline calls made, the calls made on the       *)
(* serial connection in their order, the number of primitive calls made    *)
(* and the configuration cache the call leaves behind.                     *)

Outcome(exc, cause, ret, r, config) ==
    [exc |-> exc, cause |-> cause, ret |-> ret, value |-> <<>>,
     command |-> r.command, response |-> r.response,
     frames |-> r.frames, nreads |-> r.nreads, wire |-> r.wire, ncalls |-> 1,
     config |-> config]

\* the operation raised before it called a primitive
Rejected(exc, config) ==
    [Outcome(exc, "none", "None", Raised(exc), config) EXCEPT !.ncalls = 0]

\* the keywords every operation passes to its primitive: each call site names
\* response_length beside the primitive's own parameters
SingleWriteKeywords ==
    {"slave_address", "register_address", "register_value", "response_length", "verbose"}
ReadKeywords ==
    {"slave_address", "starting_address", "register_quantity", "response_length", "verbose"}
MultipleWriteKeywords ==
    {"slave_address", "starting_address", "register_quantity", "byte_quantity",
     "payload", "response_length", "verbose"}

\* an echo-style setter that calls its primitive a second time when the first call
\* raised
EchoSetter_retry(self, register_address, register_value, verbose, mode, config) ==
    LET r == write_single_register(SingleWriteKeywords, PyInt(self),
                                   PyInt(register_address), register_value,
                                   verbose, mode)
    IN IF r.exc # "none"
       THEN [Outcome("RuntimeError", r.exc, "None", r, config)
                EXCEPT !.ncalls = 2, !.frames = r.frames \o r.frames,
                       !.wire = r.wire \o r.wire]
       ELSE IF r.response = r.command THEN Outcome("none", "none", "True", r, config)
       ELSE Outcome("none", "none", "False", r, config)

\* the body shared by the echo-style setters: write one register inside
\* try/except Exception (re-raised as RuntimeError), then response == command
EchoSetter(self, register_address, register_value, verbose, mode, config) ==
    LET r == write_single_register(SingleWriteKeywords, PyInt(self),
                                   PyInt(register_address), register_value,
                                   verbose, mode)
    IN IF r.exc # "none" THEN Outcome("RuntimeError", r.exc, "None", r, config)
       ELSE IF r.response = r.command THEN Outcome("none", "none", "True", r, config)
       ELSE Outcome("none", "none", "False", r, config)

\* Servo42dModbus.calibrate: register 0x0080, value 1
calibrate_outcome(self, verbose, mode, config) ==
    IF ~is_bool(verbose) THEN Rejected("TypeError", config)
    ELSE EchoSetter(self, 128, PyInt(1), verbose, mode, config)

\* Servo42dModbus.clear_motor_protection: register 0x0088, value 0
clear_motor_protection_outcome(self, verbose, mode, config) ==
    IF ~is_bool(verbose) THEN Rejected("TypeError", config)
    ELSE EchoSetter(self, 136, PyInt(0), verbose, mode, config)

\* Servo42dModbus.disable_enable_pin: register 0x0085, value 2
disable_enable_pin_outcome(self, verbose, mode, config) ==
    IF ~is_bool(verbose) THEN Rejected("TypeError", config)
    ELSE EchoSetter(self, 133, PyInt(2), verbose, mode, config)

\* Servo42dModbus.restart: register 0x0041, value 1
restart_outcome(self, verbose, mode, config) ==
    IF ~is_bool(verbose) THEN Rejected("TypeError", config)
    ELSE EchoSetter(self, 65, PyInt(1), verbose, mode, config)

\* Servo42dModbus.set_zero: register 0x0092, value 1
set_zero_outcome(self, verbose, mode, config) ==
    IF ~is_bool(verbose) THEN Rejected("TypeError", config)
    ELSE EchoSetter(self, 146, PyInt(1), verbose, mode, config)

\* Servo42dModbus.set_work_mode: register 0x0082, value work_mode.value
set_work_mode_outcome(self, work_mode, verbose, mode, config) ==
    IF ~is_bool(verbose) THEN Rejected("TypeError", config)
    ELSE IF ~is_enum(work_mode, "WorkMode") THEN Rejected("TypeError", config)
    ELSE EchoSetter(self, 130, PyInt(work_mode.v), verbose, mode, config)

\* Servo42dModbus.set_serial_mode_motor_enable: register 0x00F3
set_serial_mode_motor_enable_outcome(self, enable_disable, verbose, mode, config) ==
    IF ~is_bool(verbose) THEN Rejected("TypeError", config)
    ELSE IF ~is_enum(enable_disable, "EnableDisable") THEN Rejected("TypeError", config)
    ELSE EchoSetter(self, 243, PyInt(enable_disable.v), verbose, mode, config)

\* Servo42dModbus.set_holding_current_percentage: register 0x009B
set_holding_current_percentage_outcome(self, holding_current_percentage, verbose, mode, config) ==
    IF ~is_enum(holding_current_percentage, "HoldCurrentPercentage")
    THEN Rejected("TypeError", config)
    ELSE IF ~is_bool(verbose) THEN Rejected("TypeError", config)
    ELSE EchoSetter(self, 155, PyInt(holding_current_percentage.v), verbose, mode, config)

\* Servo42dModbus.set_working_current: register 0x0083, 250 to 3000 mA
set_working_current_outcome(self, working_current_ma, verbose, mode, config) ==
    IF ~is_uint16(working_current_ma) THEN Rejected("TypeError", config)
    ELSE IF ~is_bool(verbose) THEN Rejected("TypeError", config)
    ELSE IF working_current_ma.v < 250 \/ working_current_ma.v > 3000
    THEN Rejected("ValueError", config)
    ELSE EchoSetter(self, 131, working_current_ma, verbose, mode, config)

---------------------------------------------------------------------------
(* The configuration cache: a dict, here a function from its keys.         *)

\* the dict object self.configuration names for the driver instance self: the class
\* body creates one dict (configuration: dict = {}), __init__ creates none, and
\* read_all_config_parameters binds the instance's attribute to the object it read
\* through it, so the lookup ends at the class's dict for every instance
configuration_object(self) == "Servo42dModbus.configuration"

EmptyDict == [k \in {} |-> PyInt(0)]

\* parameters[key] = value
Put(config, key, value) ==
    [k \in DOMAIN config \cup {key} |-> IF k = key THEN value ELSE config[k]]

RECURSIVE Gcd(_, _)
Gcd(a, b) == IF b = 0 THEN a ELSE Gcd(b, a % b)

\* the float n/m, for m > 0, in lowest terms
Fraction(n, m) ==
    LET g == Gcd(IF n < 0 THEN -n ELSE n, m) IN PyFloat(n \div g, m \div g)

\* int(x / y) for floats x and y > 0: the quotient truncated toward zero
IntOfQuotient(x, y) ==
    LET n == x.v * y.d
        m == x.d * y.v
    IN IF n >= 0 THEN n \div m ELSE -((-n) \div m)

\* Servo42dModbus.set_step_parameters: register 0x0084, value microsteps; on an
\* echo the three cache entries are assigned one after the other
set_step_parameters_outcome(self, microsteps, steps_per_revolution, verbose, mode, config) ==
    IF ~is_uint16(microsteps) THEN Rejected("TypeError", config)
    ELSE IF ~is_uint8(steps_per_revolution) THEN Rejected("TypeError", config)
    ELSE IF ~is_bool(verbose) THEN Rejected("TypeError", config)
    ELSE LET r == write_single_register(SingleWriteKeywords, PyInt(self), PyInt(132),
                                        microsteps, verbose, mode)
             two == Put(Put(config, "microsteps_per_step", microsteps),
                        "steps_per_revolution", steps_per_revolution)
             product == microsteps.v * steps_per_revolution.v
         IN IF r.exc # "none" THEN Outcome("RuntimeError", r.exc, "None", r, config)
            ELSE IF r.response # r.command THEN Outcome("none", "none", "False", r, config)
            ELSE IF product = 0 THEN Outcome("ZeroDivisionError", "none", "None", r, two)
            ELSE Outcome("none", "none", "True", r,
                         Put(two, "degrees_per_microstep", Fraction(360, product)))

\* Servo42dModbus.relative_move_by_pulses: registers 0x00FD.., 8 payload bytes;
\* True when the response's first 6 bytes are [slave, 0x10, 0x00, 0xFD, 0x00, 0x04]
relative_move_by_pulses_outcome(self, direction, acceleration, speed, pulses, verbose, mode, config) ==
    IF ~is_enum(direction, "Direction") THEN Rejected("TypeError", config)
    ELSE IF ~is_uint8(acceleration) THEN Rejected("TypeError", config)
    ELSE IF ~is_uint16(speed) THEN Rejected("TypeError", config)
    ELSE IF ~is_uint32(pulses) THEN Rejected("TypeError", config)
    ELSE IF ~is_bool(verbose) THEN Rejected("TypeError", config)
    ELSE LET payload == PyList(<<PyInt(direction.v), acceleration,
                                 PyInt(ShiftAndMask(speed.v, 8)), PyInt(speed.v % 256),
                                 PyInt(ShiftAndMask(pulses.v, 24)),
                                 PyInt(ShiftAndMask(pulses.v, 16)),
                                 PyInt(ShiftAndMask(pulses.v, 8)),
                                 PyInt(pulses.v % 256)>>)
             r == write_multiple_registers(MultipleWriteKeywords, PyInt(self), PyInt(253),
                                           PyInt(4), PyInt(8), payload, verbose, mode)
         IN IF r.exc # "none" THEN Outcome("RuntimeError", r.exc, "None", r, config)
            ELSE IF r.response # <<>>
                    /\ Slice(r.response, 6) = <<self, 16, 0, 253, 0, 4>>
            THEN Outcome("none", "none", "True", r, config)
            ELSE Outcome("none", "none", "False", r, config)

\* relative_move_by_degrees with the missing key caught like a communication
\* error and re-raised as RuntimeError
relative_move_by_degrees_outcome_wrapped(self, direction, acceleration, speed, degrees, verbose, mode, config) ==
    IF ~is_enum(direction, "Direction") THEN Rejected("TypeError", config)
    ELSE IF ~is_bool(verbose) THEN Rejected("TypeError", config)
    ELSE IF ~is_uint8(acceleration) THEN Rejected("TypeError", config)
    ELSE IF ~is_uint16(speed) THEN Rejected("TypeError", config)
    ELSE IF ~is_float(degrees) THEN Rejected("TypeError", config)
    ELSE IF "degrees_per_microstep" \notin DOMAIN config
    THEN [Outcome("RuntimeError", "KeyError", "None", Raised("KeyError"), config)
             EXCEPT !.ncalls = 0]
    ELSE relative_move_by_pulses_outcome(
             self, direction, acceleration, speed,
             PyInt(IntOfQuotient(degrees, config["degrees_per_microstep"])),
             verbose, mode, config)

\* Servo42dModbus.relative_move_by_degrees: degrees to pulses through the cached
\* degrees_per_microstep (KeyError when it is absent), then relative_move_by_pulses
relative_move_by_degrees_outcome(self, direction, acceleration, speed, degrees, verbose, mode, config) ==
    IF ~is_enum(direction, "Direction") THEN Rejected("TypeError", config)
    ELSE IF ~is_bool(verbose) THEN Rejected("TypeError", config)
    ELSE IF ~is_uint8(acceleration) THEN Rejected("TypeError", config)
    ELSE IF ~is_uint16(speed) THEN Rejected("TypeError", config)
    ELSE IF ~is_float(degrees) THEN Rejected("TypeError", config)
    ELSE IF "degrees_per_microstep" \notin DOMAIN config THEN Rejected("KeyError", config)
    ELSE relative_move_by_pulses_outcome(
             self, direction, acceleration, speed,
             PyInt(IntOfQuotient(degrees, config["degrees_per_microstep"])),
             verbose, mode, config)

\* Servo42dModbus.move_at_speed: registers 0x00F6.., 4 payload bytes; the expected
\* response is asked of Modbus.calculate_modbus_crc, a name class Modbus does not
\* have (its routine is _calculate_modbus_crc), outside the try block
move_at_speed_outcome(self, direction, acceleration, speed, verbose, mode, config) ==
    IF ~is_enum(direction, "Direction") THEN Rejected("TypeError", config)
    ELSE IF ~is_uint8(acceleration) THEN Rejected("TypeError", config)
    ELSE IF ~is_uint16(speed) THEN Rejected("TypeError", config)
    ELSE IF ~is_bool(verbose) THEN Rejected("TypeError", config)
    ELSE LET payload == PyList(<<PyInt(direction.v), acceleration,
                                 PyInt(ShiftAndMask(speed.v, 8)), PyInt(speed.v % 256)>>)
             r == write_multiple_registers(MultipleWriteKeywords, PyInt(self), PyInt(246),
                                           PyInt(2), PyInt(4), payload, verbose, mode)
         IN IF r.exc # "none" THEN Outcome("RuntimeError", r.exc, "None", r, config)
            ELSE Outcome("AttributeError", "none", "None", r, config)

\* the two frames a status read compares its response with: [slave, 0x04, 0x02, 0x00,
\* status] and the CRC of those five bytes
StatusPacket(self, status) ==
    LET packet == <<self, 4, 2, 0, status>> IN packet \o _calculate_modbus_crc(packet)

\* Servo42dModbus.read_en_pin_status: input register 0x003A
read_en_pin_status_outcome(self, verbose, mode, config) ==
    IF ~is_bool(verbose) THEN Rejected("TypeError", config)
    ELSE LET r == read_input_registers(ReadKeywords, PyInt(self), PyInt(58), PyInt(1),
                                       verbose, mode)
         IN IF r.exc # "none" THEN Outcome("RuntimeError", r.exc, "None", r, config)
            ELSE IF r.response = StatusPacket(self, 1)
            THEN Outcome("none", "none", "True", r, config)
            ELSE IF r.response = StatusPacket(self, 0)
            THEN Outcome("none", "none", "False", r, config)
            ELSE Outcome("ValueError", "none", "None", r, config)

\* Servo42dModbus.read_motor_shaft_protection_status: input register 0x003E; the
\* expected frames are extended with Modbus.calculate_modbus_crc, which does not exist
read_motor_shaft_protection_status_outcome(self, verbose, mode, config) ==
    IF ~is_bool(verbose) THEN Rejected("TypeError", config)
    ELSE LET r == read_input_registers(ReadKeywords, PyInt(self), PyInt(62), PyInt(1),
                                       verbose, mode)
         IN IF r.exc # "none" THEN Outcome("RuntimeError", r.exc, "None", r, config)
            ELSE Outcome("AttributeError", "none", "None", r, config)

\* read_encoder_value, line 92: parse_int48 of response[3] .. response[8]
EncoderCount(response) ==
    parse_int48(response[4], response[5], response[6], response[7], response[8],
                response[9])

\* read_encoder_value, lines 94-98: total_degrees = (360.0/16384.0) * encoder_count,
\* divmod(total_degrees, 360.0), int(rotations).  The floats are exact: 360/16384 is
\* 45 * 2^-11 and |encoder_count| * 45 < 2^53.  total_degrees is kept as a count of
\* 1/2048 degree; divmod floors, so the remainder lies in [0, 360).
EncoderReading(encoder_count) ==
    LET low == encoder_count.lo * 45
    IN [encoder_count |-> encoder_count,
        total_degrees |-> [n |-> Wide((encoder_count.hi * 45) + (low \div Pow2(24)),
                                      low % Pow2(24)),
                           d |-> 2048],
        rotations |-> Wide(encoder_count.hi \div Pow2(14),
                           ((encoder_count.hi % Pow2(14)) * Pow2(10))
                             + (encoder_count.lo \div Pow2(14))),
        remaining_degrees |-> Fraction((encoder_count.lo % Pow2(14)) * 45, 2048)]

\* Servo42dModbus.read_encoder_value: input registers 0x0031.., 3 registers; the
\* response is indexed without a test of its length
read_encoder_value_outcome(self, verbose, mode, config) ==
    IF ~is_bool(verbose) THEN Rejected("TypeError", config)
    ELSE LET r == read_input_registers(ReadKeywords, PyInt(self), PyInt(49), PyInt(3),
                                       verbose, mode)
         IN IF r.exc # "none" THEN Outcome("RuntimeError", r.exc, "None", r, config)
            ELSE IF Len(r.response) < 9 THEN Outcome("IndexError", "none", "None", r, config)
            ELSE [Outcome("none", "none", "tuple", r, config)
                    EXCEPT !.value = <<EncoderReading(EncoderCount(r.response))>>]

---------------------------------------------------------------------------
(* Servo42dModbus.read_all_config_parameters                               *)

Strs(names) == [i \in 1..Len(names) |-> PyStr(names[i])]
Ints(numbers) == [i \in 1..Len(numbers) |-> PyInt(numbers[i])]
OffOn == Strs(<<"disabled", "enabled">>)
CwCcw == Strs(<<"CW", "CCW">>)

\* the assignments to `parameters`, in the order of the source: the key, how
\* its value is read, the index of the first byte read (into data = [0] +
\* response), and for a match statement its least case and its case values
DecodeSteps ==
    << [key |-> "mode", kind |-> "match", idx |-> 4, base |-> 0,
        table |-> Strs(<<"CR_OPEN", "CR_CLOSE", "CR_vFOC", "SR_OPEN", "SR_CLOSE", "SR_vFOC">>)],
       [key |-> "hold_current_percentage", kind |-> "match", idx |-> 5, base |-> 0,
        table |-> Ints(<<10, 20, 30, 40, 50, 60, 70, 80, 90>>)],
       [key |-> "working_current_mA", kind |-> "word", idx |-> 6, base |-> 0, table |-> <<>>],
       [key |-> "microsteps_per_step", kind |-> "byte", idx |-> 8, base |-> 0, table |-> <<>>],
       [key |-> "enable_pin_mode", kind |-> "match", idx |-> 9, base |-> 0,
        table |-> Strs(<<"active low", "active high", "always active">>)],
       [key |-> "direction", kind |-> "match", idx |-> 10, base |-> 0, table |-> CwCcw],
       [key |-> "auto_screen_off", kind |-> "match", idx |-> 11, base |-> 0, table |-> OffOn],
       [key |-> "stall_protection", kind |-> "match", idx |-> 12, base |-> 0, table |-> OffOn],
       [key |-> "subdivision_interpolation", kind |-> "match", idx |-> 13, base |-> 0,
        table |-> OffOn],
       [key |-> "baud_rate", kind |-> "match", idx |-> 15, base |-> 1,
        table |-> Ints(<<9600, 19200, 25000, 38400, 57600, 115200, 256000>>)],
       [key |-> "slave_address", kind |-> "byte", idx |-> 16, base |-> 0, table |-> <<>>],
       [key |-> "group_address", kind |-> "byte", idx |-> 17, base |-> 0, table |-> <<>>],
       [key |-> "respond", kind |-> "word", idx |-> 18, base |-> 0, table |-> <<>>],
       [key |-> "respond_enabled", kind |-> "respond", idx |-> 0, base |-> 0,
        table |-> Strs(<<"enabled respond", "disabled respond", "enabled active",
                         "disabled active">>)],
       [key |-> "modbus_rtu_enabled", kind |-> "match", idx |-> 20, base |-> 0, table |-> OffOn],
       [key |-> "key_lock", kind |-> "match", idx |-> 21, base |-> 0,
        table |-> Strs(<<"unlocked", "locked">>)],
       [key |-> "home_trigger_level", kind |-> "match", idx |-> 22, base |-> 0,
        table |-> Strs(<<"low", "high">>)],
       [key |-> "home_direction", kind |-> "match", idx |-> 23, base |-> 0, table |-> CwCcw],
       [key |-> "home_speed", kind |-> "word", idx |-> 24, base |-> 0, table |-> <<>>],
       [key |-> "endstop_limit_function", kind |-> "match", idx |-> 27, base |-> 0,
        table |-> OffOn],
       [key |-> "nolimit_home_reverse_angle", kind |-> "dword", idx |-> 28, base |-> 0,
        table |-> <<>>],
       [key |-> "home_mode", kind |-> "match", idx |-> 33, base |-> 0,
        table |-> Strs(<<"limited (uses switch)", "no limit (stall homing)">>)],
       [key |-> "nolimit_home_current_mA", kind |-> "word", idx |-> 34, base |-> 0,
        table |-> <<>>],
       [key |-> "limit_port_remap", kind |-> "match", idx |-> 37, base |-> 0, table |-> OffOn],
       [key |-> "power_on_zero_mode", kind |-> "match", idx |-> 38, base |-> 0,
        table |-> Strs(<<"disabled", "DirMode", "NearMode">>)],
       [key |-> "power_on_zero_speed", kind |-> "byte", idx |-> 40, base |-> 0, table |-> <<>>],
       [key |-> "power_on_zero_direction", kind |-> "match", idx |-> 41, base |-> 0,
        table |-> CwCcw] >>

\* the last index of data a step reads
StepLast(step) ==
    CASE step.kind = "word" -> step.idx + 1
      [] step.kind = "dword" -> step.idx + 3
      [] OTHER -> step.idx

\* match code: the case's value, or "unknown" for case _
Match(step, code) ==
    IF step.base <= code /\ code < step.base + Len(step.table)
    THEN step.table[code - step.base + 1]
    ELSE PyStr("unknown")

\* the value a step assigns; data[k] of the source is response byte k here
StepValue(step, data, parameters) ==
    CASE step.kind = "match" -> Match(step, data[step.idx])
      [] step.kind = "byte" -> PyInt(data[step.idx])
      [] step.kind = "word" -> PyInt(data[step.idx] * 256 + data[step.idx + 1])
      [] step.kind = "dword" ->
            PyInt(((data[step.idx] * 256 + data[step.idx + 1]) * 256
                   + data[step.idx + 2]) * 256 + data[step.idx + 3])
      [] OTHER -> Match(step, parameters["respond"].v)

\* the steps from the i-th on, applied to the dict in place: an index past the
\* end of data raises IndexError and keeps what was assigned before it
RECURSIVE DecodeFrom(_, _, _)
DecodeFrom(parameters, data, i) ==
    IF i > Len(DecodeSteps) THEN [config |-> parameters, exc |-> "none"]
    ELSE IF StepLast(DecodeSteps[i]) > Len(data)
    THEN [config |-> parameters, exc |-> "IndexError"]
    ELSE DecodeFrom(Put(parameters, DecodeSteps[i].key,
                        StepValue(DecodeSteps[i], data, parameters)), data, i + 1)

\* the header test: response and response[0] == slave and response[1] == 0x04
\* and response[2] == 0x26, evaluated left to right
HeaderTest(self, response) ==
    IF response = <<>> THEN "False"
    ELSE IF response[1] # self THEN "False"
    ELSE IF Len(response) < 2 THEN "IndexError"
    ELSE IF response[2] # 4 THEN "False"
    ELSE IF Len(response) < 3 THEN "IndexError"
    ELSE IF response[3] # 38 THEN "False"
    ELSE "True"

\* Servo42dModbus.read_all_config_parameters: input registers 0x1147, 19 of them
read_all_config_parameters_outcome(self, verbose, mode, config) ==
    IF ~is_bool(verbose) THEN Rejected("TypeError", config)
    ELSE LET r == read_input_registers(ReadKeywords, PyInt(self), PyInt(4423), PyInt(19),
                                       PyBool(FALSE), mode)
             header == HeaderTest(self, r.response)
             decoded == DecodeFrom(config, r.response, 1)
         IN IF r.exc # "none" THEN Outcome("RuntimeError", r.exc, "None", r, config)
            ELSE IF header = "IndexError" THEN Outcome("IndexError", "none", "None", r, config)
            ELSE IF header = "False" THEN Outcome("ValueError", "none", "None", r, config)
            ELSE IF decoded.exc # "none"
            THEN Outcome(decoded.exc, "none", "None", r, decoded.config)
            ELSE Outcome("none", "none", "dict", r, decoded.config)

---------------------------------------------------------------------------
(* setup_routine: eight operations one after the other, inside one         *)
(* try/except Exception that re-raises as RuntimeError.                    *)

\* the k-th call of the routine, each with verbose=True
SetupStep(k, self, mode, config) ==
    CASE k = 1 -> disable_enable_pin_outcome(self, PyBool(TRUE), mode, config)
      [] k = 2 -> set_work_mode_outcome(self, PyEnum("WorkMode", 4), PyBool(TRUE), mode, config)
      [] k = 3 -> set_serial_mode_motor_enable_outcome(self, PyEnum("EnableDisable", 1),
                                                       PyBool(TRUE), mode, config)
      [] k = 4 -> clear_motor_protection_outcome(self, PyBool(TRUE), mode, config)
      [] k = 5 -> set_working_current_outcome(self, PyInt(1000), PyBool(TRUE), mode, config)
      [] k = 6 -> set_holding_current_percentage_outcome(
                      self, PyEnum("HoldCurrentPercentage", 4), PyBool(TRUE), mode, config)
      [] k = 7 -> set_step_parameters_outcome(self, PyInt(16), PyInt(200), PyBool(TRUE),
                                              mode, config)
      [] OTHER -> read_all_config_parameters_outcome(self, PyBool(TRUE), mode, config)

\* what one more call adds to what the routine has done so far
Then(done, o) ==
    [o EXCEPT !.frames = done.frames \o o.frames,
              !.nreads = done.nreads + o.nreads,
              !.wire = done.wire \o o.wire,
              !.ncalls = done.ncalls + o.ncalls]

\* the calls from the k-th on: the first that raises ends the routine with
\* RuntimeError; the values the calls return are not looked at
RECURSIVE SetupFrom(_, _, _, _)
SetupFrom(k, self, mode, done) ==
    IF k > 8 THEN [done EXCEPT !.exc = "none", !.cause = "none", !.ret = "True"]
    ELSE LET o == Then(done, SetupStep(k, self, mode, done.config))
         IN IF o.exc # "none"
            THEN [o EXCEPT !.exc = "RuntimeError", !.cause = o.exc, !.ret = "None",
                           !.value = <<>>]
            ELSE SetupFrom(k + 1, self, mode, o)

\* Servo42dModbus.setup_routine
setup_routine_outcome(self, verbose, mode, config) ==
    IF ~is_bool(verbose) THEN Rejected("TypeError", config)
    ELSE SetupFrom(1, self, mode, Rejected("none", config))

---------------------------------------------------------------------------
(* The inputs the calls are made with.                                     *)

\* slave addresses a driver instance is constructed with
SlaveAddresses == {1, 2}

VerboseSamples == {PyBool(FALSE), PyInt(0)}
SlaveSamples == {PyInt(-1), PyInt(0), PyInt(255), PyInt(256), PyStr("1"), PyBool(TRUE)}
U16Samples == {PyInt(-1), PyInt(0), PyInt(258), PyInt(65535), PyInt(65536), PyStr("x")}
QuantitySamples == {PyInt(-1), PyInt(2), PyInt(4660), PyInt(65536), PyStr("2")}
SlaveFew == {PyInt(1), PyInt(256)}
QuantityFew == {PyInt(4), PyInt(65536)}
U8Samples == {PyInt(-1), PyInt(8), PyInt(256)}
PayloadSamples ==
    { PyList(<<>>),
      PyList(<<PyInt(0), PyInt(100), PyInt(3), PyInt(232)>>),
      PyList(<<PyInt(0), PyInt(100), PyInt(3), PyInt(232),
               PyInt(0), PyInt(0), PyInt(195), PyInt(80)>>),
      PyList(<<PyInt(1), PyInt(256)>>),
      PyList(<<PyInt(-1)>>),
      PyList(<<PyInt(1), PyStr("2")>>),
      PyTuple(<<PyInt(1), PyInt(2)>>) }

\* byte sequences for the CRC routine: the short ones over a few byte values,
\* every single byte, and the read request 01 03 00 00 00 02
ByteSamples == {0, 1, 128, 255}
\* first bytes of a 48-bit word, either side of the sign bit
SignByteSamples == {0, 1, 127, 128, 255}
KnownVector == <<1, 3, 0, 0, 0, 2>>
CrcInputs ==
    UNION {[1..n -> ByteSamples] : n \in 0..MaxLen}
        \cup {<<b>> : b \in 0..255} \cup {KnownVector}

WorkModeSamples == {PyEnum("WorkMode", 0), PyEnum("WorkMode", 4), PyInt(4)}
EnableDisableSamples == {PyEnum("EnableDisable", 0), PyEnum("EnableDisable", 1), PyInt(1)}
HoldCurrentSamples ==
    {PyEnum("HoldCurrentPercentage", k) : k \in 0..9} \cup {PyInt(4)}
CurrentSamples ==
    {PyInt(-1), PyInt(249), PyInt(250), PyInt(1000), PyInt(3000), PyInt(3001),
     PyInt(65536), PyStr("1000")}
MicrostepSamples == {PyInt(-1), PyInt(0), PyInt(16), PyInt(256), PyInt(65536)}
StepsSamples == {PyInt(0), PyInt(200), PyInt(256)}
DirectionSamples == {PyEnum("Direction", 0), PyEnum("Direction", 1), PyInt(0)}
AccelerationSamples == {PyInt(100), PyInt(256)}
SpeedSamples == {PyInt(1000), PyInt(65536)}
DegreesSamples == {PyFloat(90, 1), PyFloat(-90, 1), PyFloat(1, 20), PyInt(90)}
PulsesSamples == {PyInt(-1), PyInt(0), PyInt(50000)}

---------------------------------------------------------------------------
(* The state machine: a caller makes one call after the other.             *)

NoCall ==
    [op |-> "none", args |-> <<>>, payload |-> PyList(<<>>), mode |-> "none",
     data |-> <<>>, before |-> "none",
     out |-> [exc |-> "none", cause |-> "none", ret |-> "None", value |-> <<>>,
              command |-> <<>>, response |-> <<>>, frames |-> <<>>, nreads |-> 0,
              wire |-> <<>>, ncalls |-> 0]]

\* what the call reports to its caller and does to the serial connection
Report(out) ==
    [exc |-> out.exc, cause |-> out.cause, ret |-> out.ret, value |-> out.value,
     command |-> out.command, response |-> out.response,
     frames |-> out.frames, nreads |-> out.nreads, wire |-> out.wire,
     ncalls |-> out.ncalls]

\* the serial connection after the calls in wire were made on it
After(connection, wire) == IF wire = <<>> THEN connection ELSE wire[Len(wire)]

\* a call of a Servo42dModbus method ends with outcome out
Finish(op, args, mode, out) ==
    /\ pc' = "returned"
    /\ serial_connection' = After(serial_connection, out.wire)
    /\ configuration' = out.config
    /\ call' = [op |-> op, args |-> args, payload |-> PyList(<<>>), mode |-> mode,
                data |-> <<>>, before |-> serial_connection, out |-> Report(out)]
    /\ UNCHANGED slave_address

\* a call of a Modbus primitive ends with result r: (command, response) or an exception
FinishPrimitive(op, args, payload, mode, r) ==
    /\ pc' = "returned"
    /\ call' = [op |-> op, args |-> args, payload |-> payload, mode |-> mode,
                data |-> <<>>, before |-> serial_connection,
                out |-> Report(Outcome(r.exc, "none",
                                       IF r.exc = "none" THEN "tuple" ELSE "None",
                                       r, configuration))]
    /\ serial_connection' = After(serial_connection, r.wire)
    /\ UNCHANGED <<slave_address, configuration>>

Init ==
    /\ pc = "idle"
    /\ slave_address \in SlaveAddresses
    /\ configuration = EmptyDict
    /\ call = NoCall
    /\ serial_connection = "opened"

\* the caller takes the result and goes on to its next call
Return ==
    /\ pc = "returned"
    /\ pc' = "idle"
    /\ call' = NoCall
    /\ UNCHANGED <<slave_address, configuration, serial_connection>>

\* Servo42dModbus.__init__, line 37: the instance's first set_step_parameters
Servo42dModbus_init ==
    /\ pc = "idle"
    /\ \E microsteps_per_step \in {PyInt(0), PyInt(16)}, steps_per_revolution \in {PyInt(200)},
           mode \in TransportModes :
            Finish("__init__", <<microsteps_per_step, steps_per_revolution>>, mode,
                   set_step_parameters_outcome(slave_address, microsteps_per_step,
                                               steps_per_revolution, PyBool(FALSE), mode,
                                               configuration))

Call_calculate_modbus_crc ==
    /\ pc = "idle"
    /\ \E data \in CrcInputs :
        call' = [NoCall EXCEPT !.op = "_calculate_modbus_crc", !.data = data,
                               !.out.ret = "bytes",
                               !.out.value = _calculate_modbus_crc(data)]
    /\ pc' = "returned"
    /\ UNCHANGED <<slave_address, configuration, serial_connection>>

Call_read_holding_registers ==
    /\ pc = "idle"
    /\ \E slave \in SlaveSamples, starting_address \in U16Samples,
           register_quantity \in QuantitySamples, verbose \in VerboseSamples,
           mode \in TransportModes :
            FinishPrimitive("read_holding_registers",
                            <<slave, starting_address, register_quantity, verbose>>,
                            PyList(<<>>), mode,
                            read_holding_registers(ReadParams, slave, starting_address,
                                                   register_quantity, verbose, mode))

Call_read_input_registers ==
    /\ pc = "idle"
    /\ \E slave \in SlaveSamples, starting_address \in U16Samples,
           register_quantity \in QuantitySamples, verbose \in VerboseSamples,
           mode \in TransportModes :
            FinishPrimitive("read_input_registers",
                            <<slave, starting_address, register_quantity, verbose>>,
                            PyList(<<>>), mode,
                            read_input_registers(ReadParams, slave, starting_address,
                                                 register_quantity, verbose, mode))

Call_write_single_register ==
    /\ pc = "idle"
    /\ \E slave \in SlaveSamples, register_address \in U16Samples,
           register_value \in QuantitySamples, verbose \in VerboseSamples,
           mode \in TransportModes :
            FinishPrimitive("write_single_register",
                            <<slave, register_address, register_value, verbose>>,
                            PyList(<<>>), mode,
                            write_single_register(WriteSingleParams, slave, register_address,
                                                  register_value, verbose, mode))

Call_write_multiple_registers ==
    /\ pc = "idle"
    /\ \E slave \in SlaveFew, starting_address \in U16Samples,
           register_quantity \in QuantityFew, byte_quantity \in U8Samples,
           payload \in PayloadSamples, verbose \in VerboseSamples,
           mode \in TransportModes :
            FinishPrimitive("write_multiple_registers",
                            <<slave, starting_address, register_quantity, byte_quantity, verbose>>,
                            payload, mode,
                            write_multiple_registers(WriteMultipleParams, slave,
                                                     starting_address, register_quantity,
                                                     byte_quantity, payload, verbose, mode))

calibrate ==
    /\ pc = "idle"
    /\ \E verbose \in VerboseSamples, mode \in TransportModes :
            Finish("calibrate", <<verbose>>, mode,
                   calibrate_outcome(slave_address, verbose, mode, configuration))

clear_motor_protection ==
    /\ pc = "idle"
    /\ \E verbose \in VerboseSamples, mode \in TransportModes :
            Finish("clear_motor_protection", <<verbose>>, mode,
                   clear_motor_protection_outcome(slave_address, verbose, mode, configuration))

disable_enable_pin ==
    /\ pc = "idle"
    /\ \E verbose \in VerboseSamples, mode \in TransportModes :
            Finish("disable_enable_pin", <<verbose>>, mode,
                   disable_enable_pin_outcome(slave_address, verbose, mode, configuration))

restart ==
    /\ pc = "idle"
    /\ \E verbose \in VerboseSamples, mode \in TransportModes :
            Finish("restart", <<verbose>>, mode,
                   restart_outcome(slave_address, verbose, mode, configuration))

set_zero ==
    /\ pc = "idle"
    /\ \E verbose \in VerboseSamples, mode \in TransportModes :
            Finish("set_zero", <<verbose>>, mode,
                   set_zero_outcome(slave_address, verbose, mode, configuration))

set_work_mode ==
    /\ pc = "idle"
    /\ \E work_mode \in WorkModeSamples, verbose \in VerboseSamples, mode \in TransportModes :
            Finish("set_work_mode", <<work_mode, verbose>>, mode,
                   set_work_mode_outcome(slave_address, work_mode, verbose, mode,
                                         configuration))

set_serial_mode_motor_enable ==
    /\ pc = "idle"
    /\ \E enable_disable \in EnableDisableSamples, verbose \in VerboseSamples,
           mode \in TransportModes :
            Finish("set_serial_mode_motor_enable", <<enable_disable, verbose>>, mode,
                   set_serial_mode_motor_enable_outcome(slave_address, enable_disable, verbose,
                                                        mode, configuration))

set_holding_current_percentage ==
    /\ pc = "idle"
    /\ \E holding_current_percentage \in HoldCurrentSamples, verbose \in VerboseSamples,
           mode \in TransportModes :
            Finish("set_holding_current_percentage", <<holding_current_percentage, verbose>>,
                   mode,
                   set_holding_current_percentage_outcome(
                       slave_address, holding_current_percentage, verbose, mode, configuration))

set_working_current ==
    /\ pc = "idle"
    /\ \E working_current_ma \in CurrentSamples, verbose \in VerboseSamples,
           mode \in TransportModes :
            Finish("set_working_current", <<working_current_ma, verbose>>, mode,
                   set_working_current_outcome(slave_address, working_current_ma, verbose,
                                               mode, configuration))

set_step_parameters ==
    /\ pc = "idle"
    /\ \E microsteps \in MicrostepSamples, steps_per_revolution \in StepsSamples,
           verbose \in VerboseSamples, mode \in TransportModes :
            Finish("set_step_parameters", <<microsteps, steps_per_revolution, verbose>>, mode,
                   set_step_parameters_outcome(slave_address, microsteps, steps_per_revolution,
                                               verbose, mode, configuration))

read_all_config_parameters ==
    /\ pc = "idle"
    /\ \E verbose \in VerboseSamples, mode \in TransportModes :
            Finish("read_all_config_parameters", <<verbose>>, mode,
                   read_all_config_parameters_outcome(slave_address, verbose, mode,
                                                      configuration))

relative_move_by_pulses ==
    /\ pc = "idle"
    /\ \E direction \in DirectionSamples, acceleration \in AccelerationSamples,
           speed \in SpeedSamples, pulses \in PulsesSamples, verbose \in VerboseSamples,
           mode \in TransportModes :
            Finish("relative_move_by_pulses",
                   <<direction, acceleration, speed, pulses, verbose>>, mode,
                   relative_move_by_pulses_outcome(slave_address, direction, acceleration, speed,
                                                   pulses, verbose, mode, configuration))

relative_move_by_degrees ==
    /\ pc = "idle"
    /\ \E direction \in DirectionSamples, acceleration \in AccelerationSamples,
           speed \in SpeedSamples, degrees \in DegreesSamples, verbose \in VerboseSamples,
           mode \in TransportModes :
            Finish("relative_move_by_degrees",
                   <<direction, acceleration, speed, degrees, verbose>>, mode,
                   relative_move_by_degrees_outcome(slave_address, direction, acceleration,
                                                    speed, degrees, verbose, mode,
                                                    configuration))

move_at_speed ==
    /\ pc = "idle"
    /\ \E direction \in DirectionSamples, acceleration \in AccelerationSamples,
           speed \in SpeedSamples, verbose \in VerboseSamples, mode \in TransportModes :
            Finish("move_at_speed", <<direction, acceleration, speed, verbose>>, mode,
                   move_at_speed_outcome(slave_address, direction, acceleration, speed,
                                         verbose, mode, configuration))

read_en_pin_status ==
    /\ pc = "idle"
    /\ \E verbose \in VerboseSamples, mode \in TransportModes :
            Finish("read_en_pin_status", <<verbose>>, mode,
                   read_en_pin_status_outcome(slave_address, verbose, mode, configuration))

read_motor_shaft_protection_status ==
    /\ pc = "idle"
    /\ \E verbose \in VerboseSamples, mode \in TransportModes :
            Finish("read_motor_shaft_protection_status", <<verbose>>, mode,
                   read_motor_shaft_protection_status_outcome(slave_address, verbose, mode,
                                                              configuration))

Call_parse_int48 ==
    /\ pc = "idle"
    /\ \E b1 \in SignByteSamples, b2 \in ByteSamples, b3 \in ByteSamples,
           b4 \in ByteSamples, b5 \in ByteSamples, b6 \in ByteSamples :
        call' = [NoCall EXCEPT !.op = "parse_int48",
                               !.data = <<b1, b2, b3, b4, b5, b6>>,
                               !.out.ret = "int",
                               !.out.value = <<parse_int48(b1, b2, b3, b4, b5, b6)>>]
    /\ pc' = "returned"
    /\ UNCHANGED <<slave_address, configuration, serial_connection>>

read_encoder_value ==
    /\ pc = "idle"
    /\ \E verbose \in VerboseSamples, mode \in TransportModes :
            Finish("read_encoder_value", <<verbose>>, mode,
                   read_encoder_value_outcome(slave_address, verbose, mode, configuration))

setup_routine ==
    /\ pc = "idle"
    /\ \E verbose \in VerboseSamples \cup {PyBool(TRUE)}, mode \in TransportModes :
            Finish("setup_routine", <<verbose>>, mode,
                   setup_routine_outcome(slave_address, verbose, mode, configuration))

Next ==
    \/ Servo42dModbus_init
    \/ Call_calculate_modbus_crc
    \/ Call_read_holding_registers
    \/ Call_read_input_registers
    \/ Call_write_single_register
    \/ Call_write_multiple_registers
    \/ calibrate
    \/ clear_motor_protection
    \/ disable_enable_pin
    \/ restart
    \/ set_zero
    \/ set_work_mode
    \/ set_serial_mode_motor_enable
    \/ set_holding_current_percentage
    \/ set_working_current
    \/ set_step_parameters
    \/ read_all_config_parameters
    \/ relative_move_by_pulses
    \/ relative_move_by_degrees
    \/ move_at_speed
    \/ read_en_pin_status
    \/ read_motor_shaft_protection_status
    \/ Call_parse_int48
    \/ read_encoder_value
    \/ setup_routine
    \/ Return

Spec == Init /\ [][Next]_vars

---------------------------------------------------------------------------
(* What the claims speak of.                                               *)

Returned(op) == pc = "returned" /\ call.op = op
ValidationErrors == {"TypeError", "ValueError"}
NoIO(out) == out.frames = <<>> /\ out.nreads = 0

\* an argument the documentation allows: a Python integer (bool is a subclass of
\* int, True being 1) within 0..hi
Allowed(value, hi) == value.t \in {"int", "bool"} /\ 0 <= value.v /\ value.v <= hi
IsFlag(value) == value.t = "bool"

\* the Modbus CRC-16 stated on a register of 16 bits, bit 1 the lowest
Bits16(n) == [i \in 1..16 |-> (n \div Pow2(i - 1)) % 2]
XorBits(x, y) == [i \in 1..16 |-> IF x[i] = y[i] THEN 0 ELSE 1]
ShiftBits(x) == [i \in 1..16 |-> IF i = 16 THEN 0 ELSE x[i + 1]]
StepBits(x) == IF x[1] = 1 THEN XorBits(ShiftBits(x), Bits16(40961)) ELSE ShiftBits(x)
EightSteps(x) == StepBits(StepBits(StepBits(StepBits(StepBits(StepBits(StepBits(StepBits(x))))))))
RECURSIVE RegisterBits(_, _, _)
RegisterBits(x, data, i) ==
    IF i > Len(data) THEN x
    ELSE LET next == EightSteps(XorBits(x, Bits16(data[i])))
         IN IF next[1] > 1 THEN next ELSE RegisterBits(next, data, i + 1)
RECURSIVE BitsValue(_, _)
BitsValue(x, i) == IF i > 16 THEN 0 ELSE x[i] + 2 * BitsValue(x, i + 1)
ReferenceCrc(data) == BitsValue(RegisterBits(Bits16(65535), data, 1), 1)

\* the frame-valid check: the CRC of all bytes but the last two is the last two
FrameValid(frame) ==
    /\ Len(frame) >= 2
    /\ _calculate_modbus_crc(SubSeq(frame, 1, Len(frame) - 2))
         = SubSeq(frame, Len(frame) - 1, Len(frame))

\* the frame with bit k (0 the lowest) of its byte i flipped
FlipBit(frame, i, k) ==
    [j \in 1..Len(frame) |->
        IF j # i THEN frame[j]
        ELSE IF (frame[j] \div Pow2(k)) % 2 = 1 THEN frame[j] - Pow2(k)
        ELSE frame[j] + Pow2(k)]

---------------------------------------------------------------------------
(* C1: the echo-confirmed setters.                                         *)

EchoSetters ==
    {"calibrate", "restart", "set_zero", "set_work_mode", "set_working_current",
     "set_holding_current_percentage", "set_step_parameters", "clear_motor_protection",
     "disable_enable_pin"}

\* the call's arguments are ones the setter's documentation allows
SetterArgsValid(c) ==
    /\ IsFlag(c.args[Len(c.args)])
    /\ c.op = "set_work_mode" => c.args[1].t = "WorkMode"
    /\ c.op = "set_holding_current_percentage" => c.args[1].t = "HoldCurrentPercentage"
    /\ c.op = "set_working_current" => Allowed(c.args[1], 3000) /\ c.args[1].v >= 250
    /\ c.op = "set_step_parameters" =>
          /\ Allowed(c.args[1], 65535) /\ c.args[1].v >= 1
          /\ Allowed(c.args[2], 255) /\ c.args[2].v >= 1

\* C1: a setter confirmed by echo returns True when the device echoes the command
\* and returns False, raising nothing, when the response is empty.
C1_EchoSetterReturnsTrueOrFalse ==
    (pc = "returned" /\ call.op \in EchoSetters /\ SetterArgsValid(call)) =>
        /\ call.mode = "echo" => (call.out.exc = "none" /\ call.out.ret = "True")
        /\ call.mode = "empty" => (call.out.exc = "none" /\ call.out.ret = "False")

\* what the setters do instead: the primitive refuses the keyword response_length,
\* the setter wraps that TypeError in a RuntimeError, and nothing reaches the device
C1_EchoSetterRaises ==
    (pc = "returned" /\ call.op \in EchoSetters /\ SetterArgsValid(call)) =>
        /\ call.out.exc = "RuntimeError"
        /\ call.out.cause = "TypeError"
        /\ NoIO(call.out)

C1_EchoSetterCalled ==
    /\ Returned("calibrate")
    /\ SetterArgsValid(call)
    /\ call.mode = "echo"
    /\ call.out.exc = "RuntimeError"

---------------------------------------------------------------------------
(* C2: the primitives' validation.                                         *)

Primitives ==
    {"read_holding_registers", "read_input_registers", "write_single_register",
     "write_multiple_registers"}

\* the payload is a sequence of byte values
ByteSequence(payload) ==
    \A i \in 1..Len(payload.items) : Allowed(payload.items[i], 255)

\* an argument of the call is out of range or of the wrong type
BadArguments(c) ==
    \/ ~Allowed(c.args[1], 255)
    \/ ~Allowed(c.args[2], 65535)
    \/ ~Allowed(c.args[3], 65535)
    \/ c.op = "write_multiple_registers" /\ ~Allowed(c.args[4], 255)
    \/ c.op = "write_multiple_registers" /\ ~ByteSequence(c.payload)

\* C2: a primitive called with a slave address outside 0..255, a 16-bit field outside
\* 0..65535, a byte quantity outside 0..255 or a payload that is not a sequence of
\* byte values raises a validation error, and a call that raises one has written
\* nothing to the transport and read nothing from it.
C2_PrimitiveRejectsBeforeWrite ==
    (pc = "returned" /\ call.op \in Primitives) =>
        /\ BadArguments(call) => call.out.exc \in ValidationErrors
        /\ call.out.exc \in ValidationErrors => NoIO(call.out)

C2_PrimitiveRejected ==
    /\ pc = "returned"
    /\ call.op \in Primitives
    /\ BadArguments(call)
    /\ call.out.exc \in ValidationErrors
    /\ NoIO(call.out)

---------------------------------------------------------------------------
(* C3, C4, C5: the CRC routine.                                            *)

\* C3: the routine computes the Modbus CRC-16 (register 0xFFFF, each byte XORed in,
\* eight right shifts with 0xA001 XORed in whenever the bit shifted out is 1), its
\* register ends within 0..0xFFFF, and it returns the low byte first.
C3_CrcIsModbusCrc16 ==
    Returned("_calculate_modbus_crc") =>
        LET reference == ReferenceCrc(call.data)
        IN /\ CrcValue(call.data) = reference
           /\ CrcValue(call.data) \in 0..65535
           /\ call.out.value = <<reference % 256, reference \div 256>>

C3_CrcComputed ==
    /\ Returned("_calculate_modbus_crc")
    /\ Len(call.data) = MaxLen
    /\ call.out.value[1] # call.out.value[2]

\* C4: a byte sequence followed by its CRC passes the frame-valid check, and the
\* same frame with any one bit flipped fails it.
C4_CrcRoundTrip ==
    Returned("_calculate_modbus_crc") =>
        LET frame == call.data \o call.out.value
        IN /\ FrameValid(frame)
           /\ \A i \in 1..Len(frame), k \in 0..7 : ~FrameValid(FlipBit(frame, i, k))

C4_FrameChecked ==
    /\ Returned("_calculate_modbus_crc")
    /\ Len(call.data) = MaxLen
    /\ FrameValid(call.data \o call.out.value)
    /\ ~FrameValid(FlipBit(call.data \o call.out.value, 1, 7))

\* C5 as the specification has it: the CRC of 01 03 00 00 00 02 is 0xC5CB.
C5_KnownVectorIsC5CB ==
    (Returned("_calculate_modbus_crc") /\ call.data = KnownVector) =>
        call.out.value[1] + (256 * call.out.value[2]) = 50635

\* C5: the CRC of 01 03 00 00 00 02 is 0x0BC4, returned as the bytes C4, 0B.
C5_KnownVectorIs0BC4 ==
    (Returned("_calculate_modbus_crc") /\ call.data = KnownVector) =>
        /\ call.out.value[1] + (256 * call.out.value[2]) = 3012
        /\ call.out.value = <<196, 11>>

C5_KnownVectorComputed ==
    /\ Returned("_calculate_modbus_crc")
    /\ call.data = KnownVector
    /\ Len(call.out.value) = 2

---------------------------------------------------------------------------
(* C6, C7: what a successful operation would leave behind.                 *)

ServoOperations ==
    EchoSetters \cup {"__init__", "set_serial_mode_motor_enable",
                      "read_all_config_parameters", "relative_move_by_pulses",
                      "relative_move_by_degrees", "move_at_speed", "read_encoder_value",
                      "read_en_pin_status", "read_motor_shaft_protection_status"}

\* no call of a Servo42dModbus method returns a value: each one raises, from its own
\* validation, from the missing cache entry, or because the primitive refuses the
\* keyword response_length before it builds a frame
NoOperationReturns ==
    (pc = "returned" /\ call.op \in ServoOperations) =>
        /\ call.out.exc \in {"TypeError", "ValueError", "KeyError", "RuntimeError"}
        /\ call.out.ret = "None"
        /\ NoIO(call.out)

\* and so the cache stays as the class body made it
CacheStaysEmpty == configuration = EmptyDict

---------------------------------------------------------------------------
(* C8: relative_move_by_degrees before the step parameters are known.      *)

MoveArgsValid(c) ==
    /\ c.args[1].t = "Direction"
    /\ Allowed(c.args[2], 255)
    /\ Allowed(c.args[3], 65535)
    /\ c.args[4].t = "float"
    /\ IsFlag(c.args[5])

\* C8: relative_move_by_degrees called with valid arguments while the cache has no
\* degrees_per_microstep raises KeyError to its caller, writes nothing to the
\* transport and leaves the cache as it was.
C8_MoveByDegreesNeedsStepParameters ==
    [][(/\ pc = "idle"
        /\ call'.op = "relative_move_by_degrees"
        /\ MoveArgsValid(call')
        /\ "degrees_per_microstep" \notin DOMAIN configuration)
       => (/\ call'.out.exc = "KeyError"
           /\ NoIO(call'.out)
           /\ configuration' = configuration)]_vars

C8_MoveByDegreesRaisedKeyError ==
    /\ Returned("relative_move_by_degrees")
    /\ MoveArgsValid(call)
    /\ "degrees_per_microstep" \notin DOMAIN configuration
    /\ call.out.exc = "KeyError"

---------------------------------------------------------------------------
(* C9, C10: set_working_current and set_step_parameters.                   *)

\* the write-single frame for a register and a value, the CRC's low byte first
WriteSingleFrame(slave, register, value) ==
    LET body == <<slave, 6, register \div 256, register % 256,
                  value \div 256, value % 256>>
        crc == ReferenceCrc(body)
    IN body \o <<crc % 256, crc \div 256>>

\* C9: set_working_current raises a validation error and writes nothing for a
\* current outside 250..3000, and for a current inside it writes one write-single
\* frame for register 0x0083 carrying the current, high byte first.
C9_WorkingCurrentRangeAndFrame ==
    (/\ Returned("set_working_current")
     /\ call.args[1].t = "int"
     /\ IsFlag(call.args[2])
     /\ call.mode # "write_error") =>
        IF call.args[1].v < 250 \/ call.args[1].v > 3000
        THEN call.out.exc \in ValidationErrors /\ NoIO(call.out)
        ELSE call.out.frames = <<WriteSingleFrame(slave_address, 131, call.args[1].v)>>

\* the half of C9 the code keeps: a current outside 250..3000 is refused unwritten
C9_WorkingCurrentOutOfRange ==
    (/\ Returned("set_working_current")
     /\ call.args[1].t = "int"
     /\ IsFlag(call.args[2])
     /\ (call.args[1].v < 250 \/ call.args[1].v > 3000)) =>
        call.out.exc \in ValidationErrors /\ NoIO(call.out)

\* C10: set_step_parameters returns True on an echo, the cache then holding
\* microsteps_per_step, steps_per_revolution and degrees_per_microstep; on any other
\* response it returns False and leaves the cache unchanged.
C10_StepParametersCache ==
    [][(/\ pc = "idle"
        /\ call'.op = "set_step_parameters"
        /\ SetterArgsValid(call'))
       => (/\ call'.mode = "echo" =>
                /\ call'.out.ret = "True"
                /\ {"microsteps_per_step", "steps_per_revolution",
                    "degrees_per_microstep"} \subseteq DOMAIN configuration'
                /\ configuration'["microsteps_per_step"] = call'.args[1]
                /\ configuration'["steps_per_revolution"] = call'.args[2]
           /\ call'.mode \in {"empty", "corrupt", "truncated"} =>
                /\ call'.out.ret = "False"
                /\ configuration' = configuration)]_vars

---------------------------------------------------------------------------
(* C11, C12, C13: the relative moves.                                      *)

PulsesArgsValid(c) ==
    /\ c.args[1].t = "Direction"
    /\ Allowed(c.args[2], 255)
    /\ Allowed(c.args[3], 65535)
    /\ c.args[4].t = "int" /\ c.args[4].v >= 0
    /\ IsFlag(c.args[5])

\* the write-multiple frame of a relative move: start 0x00FD, 4 registers, 8 bytes
MovePulsesFrame(slave, direction, acceleration, speed, pulses) ==
    LET body == <<slave, 16, 0, 253, 0, 4, 8,
                  direction, acceleration, speed \div 256, speed % 256,
                  (pulses \div 16777216) % 256, (pulses \div 65536) % 256,
                  (pulses \div 256) % 256, pulses % 256>>
        crc == ReferenceCrc(body)
    IN body \o <<crc % 256, crc \div 256>>

\* x / y truncated toward zero, for floats x >= 0 and y > 0
TruncatedQuotient(x, y) == (x.v * y.d) \div (x.d * y.v)

\* C11: set_step_parameters(16, 200) leaves degrees_per_microstep = 360/3200 = 0.1125
\* in the cache; relative_move_by_degrees hands degrees / degrees_per_microstep,
\* truncated toward zero, to the move by pulses; 90.0 degrees at 0.1125 is 800 pulses.
C11_DegreesToPulses ==
    [][/\ (/\ pc = "idle"
           /\ call'.op = "set_step_parameters"
           /\ call'.args = <<PyInt(16), PyInt(200), PyBool(FALSE)>>
           /\ call'.mode = "echo")
          => (/\ "degrees_per_microstep" \in DOMAIN configuration'
              /\ configuration'["degrees_per_microstep"] = PyFloat(9, 80))
       /\ (/\ pc = "idle"
           /\ call'.op = "relative_move_by_degrees"
           /\ MoveArgsValid(call')
           /\ call'.args[4].v >= 0
           /\ "degrees_per_microstep" \in DOMAIN configuration)
          => call'.out.frames =
                <<MovePulsesFrame(slave_address, call'.args[1].v, call'.args[2].v,
                                  call'.args[3].v,
                                  TruncatedQuotient(call'.args[4],
                                      configuration["degrees_per_microstep"]))>>
       /\ TruncatedQuotient(PyFloat(90, 1), PyFloat(9, 80)) = 800]_vars

\* C12: relative_move_by_pulses sends one write-multiple frame: start 0x00FD, register
\* quantity 4, byte quantity 8, payload [direction, acceleration, speed high, speed
\* low, pulses most significant byte first]; CW, 100, 1000, 50000 gives the payload
\* 00 64 03 E8 00 00 C3 50.
C12_MoveByPulsesFrame ==
    (Returned("relative_move_by_pulses") /\ PulsesArgsValid(call)) =>
        /\ call.out.frames =
              <<MovePulsesFrame(slave_address, call.args[1].v, call.args[2].v,
                                call.args[3].v, call.args[4].v)>>
        /\ (/\ call.args[1].v = 0 /\ call.args[2].v = 100
            /\ call.args[3].v = 1000 /\ call.args[4].v = 50000)
           => SubSeq(call.out.frames[1], 8, 15) = <<0, 100, 3, 232, 0, 0, 195, 80>>

\* C13: relative_move_by_pulses returns True exactly when the first 6 bytes of the
\* response are [slave, 0x10, 0x00, 0xFD, 0x00, 0x04], and returns False, raising
\* nothing, for every other response, an empty or shorter one included.
C13_MoveByPulsesResult ==
    (/\ Returned("relative_move_by_pulses")
     /\ PulsesArgsValid(call)
     /\ call.mode \in {"echo", "empty", "corrupt", "truncated"}) =>
        LET response == Respond(call.mode,
                                MovePulsesFrame(slave_address, call.args[1].v,
                                                call.args[2].v, call.args[3].v,
                                                call.args[4].v))
            accepted == /\ Len(response) >= 6
                        /\ SubSeq(response, 1, 6) = <<slave_address, 16, 0, 253, 0, 4>>
        IN /\ call.out.exc = "none"
           /\ call.out.ret = IF accepted THEN "True" ELSE "False"

---------------------------------------------------------------------------
(* C14: move_at_speed.                                                     *)

SpeedArgsValid(c) ==
    /\ c.args[1].t = "Direction"
    /\ Allowed(c.args[2], 255)
    /\ Allowed(c.args[3], 65535)
    /\ IsFlag(c.args[4])

\* bytes followed by their CRC, low byte first
WithCrc(body) == LET crc == ReferenceCrc(body) IN body \o <<crc % 256, crc \div 256>>

\* the write-multiple frame of a move at speed: start 0x00F6, 2 registers, 4 bytes
MoveSpeedFrame(slave, direction, acceleration, speed) ==
    WithCrc(<<slave, 16, 0, 246, 0, 2, 4,
              direction, acceleration, speed \div 256, speed % 256>>)

\* C14: move_at_speed sends one write-multiple frame (start 0x00F6, quantity 2, byte
\* quantity 4, payload [direction, acceleration, speed high, speed low]) and returns
\* True exactly when the response is [slave, 0x10, 0x00, 0xF6, 0x00, 0x02] followed by
\* the CRC of those bytes, False for any other response, an empty one included.
C14_MoveAtSpeed ==
    (Returned("move_at_speed") /\ SpeedArgsValid(call)) =>
        LET frame == MoveSpeedFrame(slave_address, call.args[1].v, call.args[2].v,
                                    call.args[3].v)
        IN /\ call.out.frames = <<frame>>
           /\ call.mode \notin {"write_error", "read_error"} =>
                 /\ call.out.exc = "none"
                 /\ call.out.ret =
                       IF Respond(call.mode, frame)
                            = WithCrc(<<slave_address, 16, 0, 246, 0, 2>>)
                       THEN "True" ELSE "False"

---------------------------------------------------------------------------
(* C18: the status reads.                                                  *)

StatusReads == {"read_en_pin_status", "read_motor_shaft_protection_status"}

\* C18: a status read (input register 0x003A or 0x003E, one register) returns True
\* exactly when the response is [slave, 0x04, 0x02, 0x00, 0x01] and its CRC, False
\* exactly when it is [slave, 0x04, 0x02, 0x00, 0x00] and its CRC, and for every other
\* response raises a decode error and returns no boolean.
C18_StatusRead ==
    (/\ pc = "returned"
     /\ call.op \in StatusReads
     /\ IsFlag(call.args[1])
     /\ call.mode \notin {"write_error", "read_error"}) =>
        LET register == IF call.op = "read_en_pin_status" THEN 58 ELSE 62
            request == WithCrc(<<slave_address, 4, 0, register, 0, 1>>)
            response == Respond(call.mode, request)
        IN /\ call.out.frames = <<request>>
           /\ IF response = WithCrc(<<slave_address, 4, 2, 0, 1>>)
              THEN call.out.exc = "none" /\ call.out.ret = "True"
              ELSE IF response = WithCrc(<<slave_address, 4, 2, 0, 0>>)
              THEN call.out.exc = "none" /\ call.out.ret = "False"
              ELSE call.out.exc = "ValueError" /\ call.out.ret = "None"

---------------------------------------------------------------------------
(* C15: the signed 48-bit decode.                                          *)

\* a small integer as a wide one
WideOf(n) == Wide(n \div Pow2(24), n % Pow2(24))

\* the big-endian 48-bit word of six bytes, unsigned
Unsigned48(b) ==
    Wide((b[1] * 65536) + (b[2] * 256) + b[3], (b[4] * 65536) + (b[5] * 256) + b[6])

Successor(w) == IF w.lo = Pow2(24) - 1 THEN Wide(w.hi + 1, 0) ELSE Wide(w.hi, w.lo + 1)
Negated(w) == IF w.lo = 0 THEN Wide(-w.hi, 0) ELSE Wide((-w.hi) - 1, Pow2(24) - w.lo)

\* two's complement as it is defined: a word with its top bit set stands for minus
\* (the word with every bit inverted, plus one)
TwosComplement48(b) ==
    IF b[1] >= 128
    THEN Negated(Successor(Unsigned48([i \in 1..6 |-> 255 - b[i]])))
    ELSE Unsigned48(b)

\* C15: for six bytes b1..b6 parse_int48 returns the two's-complement value of the
\* big-endian 48-bit word (the unsigned value, less 2^48 when bit 47 is set), within
\* -2^47 .. 2^47 - 1; 00 00 00 00 00 01 is +1 and FF FF FF FF FF FF is -1; and the
\* decode in read_encoder_value takes bytes 3..8 of the response.
C15_ParseInt48 ==
    Returned("parse_int48") =>
        LET b == call.data
            value == call.out.value[1]
            unsigned == Unsigned48(b)
        IN /\ value = TwosComplement48(b)
           /\ value = IF b[1] >= 128 THEN Wide(unsigned.hi - Pow2(24), unsigned.lo)
                      ELSE unsigned
           /\ (-Pow2(23)) <= value.hi /\ value.hi < Pow2(23)
           /\ 0 <= value.lo /\ value.lo < Pow2(24)
           /\ b = <<0, 0, 0, 0, 0, 1>> => value = WideOf(1)
           /\ b = <<255, 255, 255, 255, 255, 255>> => value = WideOf(-1)
           /\ EncoderCount(<<slave_address, 4, 6>> \o b \o <<0, 0>>) = value

C15_MinusOneDecoded ==
    /\ Returned("parse_int48")
    /\ call.data = <<255, 255, 255, 255, 255, 255>>
    /\ call.out.value = <<WideOf(-1)>>

---------------------------------------------------------------------------
(* C16, C17: the encoder reading.                                          *)

\* the count a device reports in the mode's answer to the encoder request
ReportedCount(mode) ==
    TwosComplement48(
        SubSeq(Respond(mode, WithCrc(<<slave_address, 4, 0, 49, 0, 3>>)), 4, 9))

\* w times a factor k of at most 7 bits
TimesSmall(w, k) == Wide((w.hi * k) + ((w.lo * k) \div Pow2(24)), (w.lo * k) % Pow2(24))
\* w times 16384
Times16384(w) == Wide((w.hi * Pow2(14)) + (w.lo \div Pow2(10)), (w.lo % Pow2(10)) * Pow2(14))

\* the remainder degrees n/d in encoder units (1/16384 of a turn is 45/2048 degree)
RemainderUnits(degrees) == (degrees.v * 2048) \div (degrees.d * 45)

\* C16: read_encoder_value returns total = count x 360/16384, rotations =
\* floor(total/360) and a remainder with rotations x 360 + remainder = total; in
\* encoder units rotations = floor(count/16384) and the remainder is
\* count - 16384 x rotations.
C16_EncoderReading ==
    (/\ Returned("read_encoder_value")
     /\ IsFlag(call.args[1])
     /\ call.mode \in {"zeros", "ones", "ff"}) =>
        /\ call.out.exc = "none"
        /\ Len(call.out.value) = 1
        /\ LET reading == call.out.value[1]
               count == ReportedCount(call.mode)
               units == RemainderUnits(reading.remaining_degrees)
               turns == Times16384(reading.rotations)
           IN /\ reading.encoder_count = count
              /\ reading.total_degrees = [n |-> TimesSmall(count, 45), d |-> 2048]
              /\ (reading.remaining_degrees.v * 2048) % (reading.remaining_degrees.d * 45) = 0
              /\ 0 <= units /\ units < 16384
              /\ count = Wide(turns.hi, turns.lo + units)

\* C17: the remainder degrees read_encoder_value returns have the sign of the total
\* angle: negative or zero for a negative total, positive or zero for a positive one.
C17_RemainderSign ==
    (/\ Returned("read_encoder_value")
     /\ IsFlag(call.args[1])
     /\ call.mode \in {"zeros", "ones", "ff"}) =>
        /\ call.out.exc = "none"
        /\ Len(call.out.value) = 1
        /\ LET total == call.out.value[1].total_degrees.n
               remainder == call.out.value[1].remaining_degrees
           IN /\ total.hi < 0 => remainder.v <= 0
              /\ (total.hi > 0 \/ (total.hi = 0 /\ total.lo > 0)) => remainder.v >= 0

\* the arithmetic of lines 94-98 on the counts parse_int48 returns: the remainder is
\* never negative, and is positive for -1 and every other count not a whole turn
EncoderRemainderNeverNegative ==
    Returned("parse_int48") =>
        LET reading == EncoderReading(call.out.value[1])
        IN /\ reading.remaining_degrees.v >= 0
           /\ call.out.value[1] = WideOf(-1) =>
                 reading.remaining_degrees = Fraction(16383 * 45, 2048)

\* the same arithmetic splits every such count as C16 says
EncoderArithmeticSplitsCount ==
    Returned("parse_int48") =>
        LET count == call.out.value[1]
            reading == EncoderReading(count)
            units == RemainderUnits(reading.remaining_degrees)
            turns == Times16384(reading.rotations)
        IN /\ reading.total_degrees = [n |-> TimesSmall(count, 45), d |-> 2048]
           /\ 0 <= units /\ units < 16384
           /\ count = Wide(turns.hi, turns.lo + units)

---------------------------------------------------------------------------
(* C19, C20: reading the configuration block; short responses.             *)

\* what the device answers to the configuration request in a mode
ConfigResponse(mode) == Respond(mode, WithCrc(<<slave_address, 4, 17, 71, 0, 19>>))

HasConfigHeader(response) ==
    Len(response) >= 3 /\ SubSeq(response, 1, 3) = <<slave_address, 4, 38>>

\* the enumerated fields of the block
EnumeratedFields ==
    {"mode", "hold_current_percentage", "enable_pin_mode", "direction", "auto_screen_off",
     "stall_protection", "subdivision_interpolation", "baud_rate", "respond_enabled",
     "modbus_rtu_enabled", "key_lock", "home_trigger_level", "home_direction",
     "endstop_limit_function", "home_mode", "limit_port_remap", "power_on_zero_mode",
     "power_on_zero_direction"}

\* C19: read_all_config_parameters raises a decode error for a response whose first
\* three bytes are not [slave, 0x04, 0x26], and decodes a full 43-byte response with
\* that header without failing: a recognized code gives its table value (a block of
\* zero bytes: mode CR_OPEN, hold current 10, enable pin active low, direction CW) and
\* an unrecognized code the sentinel "unknown" (baud-rate code 0; every code 0xFF).
C19_ConfigRead ==
    (/\ Returned("read_all_config_parameters")
     /\ IsFlag(call.args[1])
     /\ call.mode \notin {"write_error", "read_error"}) =>
        LET response == ConfigResponse(call.mode)
        IN /\ ~HasConfigHeader(response) => call.out.exc = "ValueError"
           /\ (HasConfigHeader(response) /\ Len(response) = 43) =>
                 /\ call.out.exc = "none"
                 /\ call.out.ret = "dict"
                 /\ EnumeratedFields \subseteq DOMAIN configuration
                 /\ call.mode = "zeros" =>
                       /\ configuration["mode"] = PyStr("CR_OPEN")
                       /\ configuration["hold_current_percentage"] = PyInt(10)
                       /\ configuration["enable_pin_mode"] = PyStr("active low")
                       /\ configuration["direction"] = PyStr("CW")
                       /\ configuration["baud_rate"] = PyStr("unknown")
                 /\ call.mode = "ff" =>
                       \A key \in EnumeratedFields : configuration[key] = PyStr("unknown")

ReadOperations ==
    {"read_encoder_value", "read_en_pin_status", "read_motor_shaft_protection_status",
     "read_all_config_parameters"}

\* what a read operation does with a device that answers short: it never asks the
\* device; the primitive refuses the keyword response_length and the operation
\* raises RuntimeError with nothing written and nothing read
ReadOperationsNeverRead ==
    (pc = "returned" /\ call.op \in ReadOperations /\ IsFlag(call.args[1])) =>
        /\ call.out.exc = "RuntimeError"
        /\ call.out.cause = "TypeError"
        /\ NoIO(call.out)

\* the decode of a block cut off after its header stops at the first byte that is
\* missing, with IndexError
ShortBlockRaisesIndexError ==
    /\ DecodeFrom(EmptyDict, <<slave_address, 4, 38>>, 1).exc = "IndexError"
    /\ DecodeFrom(EmptyDict, <<slave_address, 4, 38, 0, 0, 0>>, 1).exc = "IndexError"
    /\ HeaderTest(slave_address, <<slave_address>>) = "IndexError"

---------------------------------------------------------------------------
(* C21: one primitive call for each call of an operation.                  *)

\* the call's arguments are ones the operation's documentation allows
OperationArgsValid(c) ==
    CASE c.op \in EchoSetters -> SetterArgsValid(c)
      [] c.op = "__init__" -> TRUE
      [] c.op = "set_serial_mode_motor_enable" ->
            c.args[1].t = "EnableDisable" /\ IsFlag(c.args[2])
      [] c.op = "relative_move_by_pulses" -> PulsesArgsValid(c)
      [] c.op = "relative_move_by_degrees" -> MoveArgsValid(c)
      [] c.op = "move_at_speed" -> SpeedArgsValid(c)
      [] OTHER -> IsFlag(c.args[1])

---------------------------------------------------------------------------
(* C22: a failing transport.                                               *)

\* no operation makes a call on the serial connection, so none can meet a write
\* or a read that raises: with a connection that would raise, the operation's
\* RuntimeError carries the TypeError of the refused keyword
OperationsNeverUseTransport ==
    (pc = "returned" /\ call.op \in ServoOperations) =>
        /\ call.out.wire = <<>>
        /\ (OperationArgsValid(call) /\ call.mode \in {"write_error", "read_error"}
            /\ call.op # "relative_move_by_degrees") =>
              (call.out.exc = "RuntimeError" /\ call.out.cause = "TypeError")

\* a primitive lets the exception of the serial connection through to its caller
PrimitiveSurfacesTransportFailure ==
    (pc = "returned" /\ call.op \in Primitives /\ call.out.wire # <<>>) =>
        (call.mode \in {"write_error", "read_error"} <=> call.out.exc = "SerialException")

---------------------------------------------------------------------------
(* C23: whose cache it is.                                                 *)

\* C23: each driver instance owns its own configuration cache: once a driver is
\* constructed, its cache is not the cache of a driver with another slave address,
\* so what is written through one is not seen through the other.
C23_OwnCachePerInstance ==
    Returned("__init__") =>
        \A other \in SlaveAddresses \ {slave_address} :
            configuration_object(slave_address) # configuration_object(other)

---------------------------------------------------------------------------
(* C24, C25: the request frames of the primitives.                         *)

FixedFramePrimitives ==
    {"read_holding_registers", "read_input_registers", "write_single_register"}

FunctionCode(op) ==
    CASE op = "read_holding_registers" -> 3
      [] op = "read_input_registers" -> 4
      [] op = "write_single_register" -> 6
      [] OTHER -> 16

\* [slave, function code, first field high, low, second field high, low] and the CRC
\* of these 6 bytes, low byte first
RequestFrame(function_code, slave, first, second) ==
    WithCrc(<<slave, function_code, first \div 256, first % 256,
              second \div 256, second % 256>>)

PayloadBytes(payload) == [i \in 1..Len(payload.items) |-> payload.items[i].v]

\* C25: write_multiple_registers writes the frame [slave, 0x10, start high, low,
\* quantity high, low, byte_quantity], the payload bytes, and the CRC of all of it
\* (9 + len(payload) bytes); it does not compare byte_quantity with len(payload) or
\* register_quantity with len(payload) / 2, so a call where they differ is not
\* rejected and the frame carries the caller's values as given.
C25_WriteMultipleFrame ==
    (Returned("write_multiple_registers") /\ ~BadArguments(call)
     /\ call.payload.t = "list" /\ IsFlag(call.args[5])) =>
        LET bytes == PayloadBytes(call.payload)
            frame == WithCrc(<<call.args[1].v, 16,
                               call.args[2].v \div 256, call.args[2].v % 256,
                               call.args[3].v \div 256, call.args[3].v % 256,
                               call.args[4].v>> \o bytes)
        IN /\ Len(frame) = 9 + Len(bytes)
           /\ call.out.exc \notin ValidationErrors
           /\ call.out.frames = <<frame>>
           /\ call.mode \notin {"write_error", "read_error"} =>
                 (call.out.exc = "none" /\ call.out.command = frame)

\* a call with 4 registers and byte quantity 8 over a payload of 4 bytes went out
C25_MismatchSent ==
    /\ Returned("write_multiple_registers")
    /\ call.args[3] = PyInt(4) /\ call.args[4] = PyInt(8)
    /\ Len(call.payload.items) = 4
    /\ call.out.exc = "none"
    /\ Len(call.out.command) = 13
    /\ SubSeq(call.out.command, 5, 7) = <<0, 4, 8>>

---------------------------------------------------------------------------
(* C26: the three step parameters in the cache.                            *)

StepParameterKeys ==
    {"microsteps_per_step", "steps_per_revolution", "degrees_per_microstep"}

\* set_step_parameters never gets as far as writing a step parameter: whatever it
\* is called with, zero microsteps or zero steps included, and whatever the device
\* answers, the cache holds none of the three keys afterwards
StepParametersNeverWritten ==
    (pc = "returned" /\ call.op \in {"set_step_parameters", "__init__"}) =>
        /\ DOMAIN configuration \cap StepParameterKeys = {}
        /\ call.out.ret # "True"

---------------------------------------------------------------------------
(* C27: the hold current, written and read back.                           *)

\* the configuration block of a device whose registers all hold 0 in the high byte
\* and code in the low byte; the hold-current byte is a low byte
BlockReporting(slave, code) == Answer(<<slave, 4, 17, 71, 0, 19>>, 0, code)

\* HoldCurrentPercentage: PERCENT_10 = 0 up to PERCENT_100 = 9
PercentOf(ordinal) == 10 * (ordinal + 1)

\* C27: for every HoldCurrentPercentage value, 10% to 100%, the ordinal that
\* set_holding_current_percentage gives register 0x009B, reported back in the
\* hold-current byte of the configuration block, is decoded by
\* read_all_config_parameters to that same percentage.
C27_HoldCurrentRoundTrip ==
    (Returned("set_holding_current_percentage") /\ SetterArgsValid(call)) =>
        LET ordinal == call.args[1].v
            decoded == DecodeFrom(EmptyDict, BlockReporting(slave_address, ordinal), 1)
        IN /\ call.mode \notin {"write_error", "read_error"} =>
                 call.out.frames = <<WriteSingleFrame(slave_address, 155, ordinal)>>
           /\ decoded.exc = "none"
           /\ decoded.config["hold_current_percentage"] = PyInt(PercentOf(ordinal))

\* the round trip as the decode table has it: every ordinal but 9 comes back as its
\* percentage, and 9 (PERCENT_100) comes back as "unknown"
HoldCurrentDecodedUpTo90 ==
    (Returned("set_holding_current_percentage") /\ SetterArgsValid(call)) =>
        LET ordinal == call.args[1].v
            decoded == DecodeFrom(EmptyDict, BlockReporting(slave_address, ordinal), 1)
        IN /\ decoded.exc = "none"
           /\ decoded.config["hold_current_percentage"] =
                 IF ordinal = 9 THEN PyStr("unknown") ELSE PyInt(PercentOf(ordinal))

---------------------------------------------------------------------------
(* C28: the cache after a configuration read that failed.                  *)

\* read_all_config_parameters never gets as far as its response: every call ends
\* in TypeError (verbose) or RuntimeError (the refused keyword), the bad header, the
\* empty response and the truncated one included, with the cache as it was
ConfigReadNeverDecodes ==
    [][call'.op = "read_all_config_parameters" =>
          /\ call'.out.exc \in {"TypeError", "RuntimeError"}
          /\ call'.out.nreads = 0
          /\ configuration' = configuration]_vars

\* the decode works on the cache itself (parameters = self.configuration): on a
\* block that ends after its 5th byte it has assigned mode and
\* hold_current_percentage when it stops with IndexError
TruncatedBlockLeavesPartialDecode ==
    LET decoded == DecodeFrom(EmptyDict, <<slave_address, 4, 38, 4, 4>>, 1)
    IN /\ decoded.exc = "IndexError"
       /\ DOMAIN decoded.config = {"mode", "hold_current_percentage"}

---------------------------------------------------------------------------
(* C29, C30: what goes over the serial connection.                         *)

\* the slave address a call addresses: the driver's own for an operation of the
\* driver, the slave_address argument for a primitive called by itself
AddressOf(c) == IF c.op \in Primitives THEN c.args[1].v ELSE slave_address

\* slave address first, a function code of the four primitives second, and the
\* CRC-16 of all bytes before it last, low byte first
WellFormed(frame, address) ==
    /\ Len(frame) >= 4
    /\ frame[1] = address
    /\ frame[2] \in {3, 4, 6, 16}
    /\ LET crc == ReferenceCrc(SubSeq(frame, 1, Len(frame) - 2))
       IN SubSeq(frame, Len(frame) - 1, Len(frame)) = <<crc % 256, crc \div 256>>

Writes == {"write", "write_raised"}
Reads == {"read", "read_raised"}

\* C30: at most one request is in flight: across any sequence of operations,
\* setup_routine included, a frame is written only when no written request still
\* awaits its read, and every read follows the write of its request directly, so
\* writes and reads alternate strictly; the response a primitive returns is paired
\* with the request it wrote last.
C30_OneRequestInFlight ==
    pc = "returned" =>
        LET events == <<call.before>> \o call.out.wire
        IN /\ \A i \in 2..Len(events) :
                /\ events[i] \in Writes => events[i - 1] # "write"
                /\ events[i] \in Reads => events[i - 1] = "write"
           /\ serial_connection # "write"
           /\ call.out.nreads <= Len(call.out.frames)
           /\ (call.op \in Primitives /\ call.out.exc = "none") =>
                 call.out.command = call.out.frames[Len(call.out.frames)]

\* a request was written and its response read right after an earlier exchange
\* had been completed
C30_SecondExchange ==
    /\ pc = "returned"
    /\ call.before = "read"
    /\ call.out.wire = <<"write", "read">>
    /\ serial_connection = "read"

====
